---- MODULE Spec2Model ----
(***************************************************************************)
(* Model of the web scraping agent: the pipeline stages of                 *)
(* src/agent/utils/nodes.py (initialize, crawl, scrap, format, save,       *)
(* error_handler) and the job supervisor of src/main.py (jobs_store and    *)
(* the HTTP handlers around it).                                           *)
(*                                                                         *)
(* Text is a sequence of characters, a character is a small integer.       *)
(* Python's None / {} / a dict are told apart by a "tag" field so that     *)
(* every value of a field has one shape.                                   *)
(***************************************************************************)
EXTENDS Integers, Sequences, FiniteSets, TLC

VARIABLES
    jobs_store,         \* main.py:36       job_id -> job record
    next_uuid,          \* main.py:122      uuid4(): ids handed out so far + 1
    clock,              \* datetime.utcnow(): the next timestamp read
    runs,               \* one record per graph.invoke in flight or finished
    scraped_data_json,  \* nodes.py:170     the file save() writes
    io,                 \* run -> the capability exchange of its last stage
    http,               \* the last HTTP response sent
    environ,            \* os.getenv: URL_LIMIT and BATCH_LIMIT
    history             \* run -> what its stages have seen and produced so far

vars == <<jobs_store, next_uuid, clock, runs, scraped_data_json, io, http, environ,
          history>>

----------------------------------------------------------------------------
(* Bounds of the model *)

MaxJobs == 2
MaxLinks == 2
MaxBatchLimit == 2

(* Program constants *)

MAX_MARKDOWN == 2000
FALLBACK_DESCRIPTION == 200
RetryBudget == 1
NoTime == 0
LIMIT_MIN == 1
LIMIT_MAX == 100

----------------------------------------------------------------------------
(* Values *)

SeedUrl == "https://example.com"

CRAWL == "crawl"
SCRAP == "scrap"
FORMAT == "format"
SAVE == "save"

PENDING == "pending"
RUNNING == "running"
COMPLETED == "completed"
FAILED == "failed"
JobStatus == {PENDING, RUNNING, COMPLETED, FAILED}

Min(a, b) == IF a < b THEN a ELSE b
Max(a, b) == IF a > b THEN a ELSE b

\* s[:n] of Python, n of either sign
PySliceTo(s, n) ==
    IF n >= 0 THEN SubSeq(s, 1, Min(n, Len(s)))
    ELSE SubSeq(s, 1, Max(Len(s) + n, 0))

\* the text of a page: a key of the state names it, this gives its characters
Text(n) == [i \in 1..n |-> i % 10]
ShortText == Text(3)
LongText == Text(MAX_MARKDOWN + 1)
markdown_text(key) ==
    CASE key = "short" -> ShortText
      [] key = "long" -> LongText
      [] OTHER -> <<>>
MarkdownKeys == {"", "short", "long"}

NoResult == [tag |-> "None", source_url |-> "", data |-> <<>>]
EmptyDict == [tag |-> "{}", source_url |-> "", data |-> <<>>]
Output(source_url, data) == [tag |-> "dict", source_url |-> source_url, data |-> data]
Truthy(result) == result.tag = "dict"

Returns(state, result) == [fault |-> FALSE, msg |-> "", state |-> state, result |-> result]
Raises(msg, state) == [fault |-> TRUE, msg |-> msg, state |-> state, result |-> NoResult]

----------------------------------------------------------------------------
(* Stages: src/agent/utils/nodes.py *)

initialize(input_url) ==
    [url |-> input_url,
     url_batches |-> <<>>,
     scraped_data |-> <<>>,
     formatted_data |-> <<>>,
     error |-> "",
     retry_count |-> 0,
     failed_node |-> ""]

\* agent/utils/helpers.py: same-origin filter of discovered links
ForeignLinks == {"x"}
is_valid_url(url, input_url) == input_url # "" /\ url \notin ForeignLinks

\* agent/utils/helpers.py: the wrapper around every stage; the stage works on
\* the state dict in place, so a fault leaves what the stage had written so far
try_except_decorator(identifier, state, out) ==
    IF out.fault
    THEN [state |-> [out.state EXCEPT !.error = out.msg, !.failed_node = identifier],
          result |-> NoResult]
    ELSE [state |-> [out.state EXCEPT !.error = "", !.failed_node = "", !.retry_count = 0],
          result |-> out.result]

\* a planner that keeps the full batches only
Batches_full_only(limited_urls, B) ==
    [k \in 1..(Len(limited_urls) \div B) |->
        SubSeq(limited_urls, (k - 1) * B + 1, k * B)]

\* [l[i:i+B] for i in range(0, len(l), B)], B > 0
Batches(limited_urls, B) ==
    [k \in 1..((Len(limited_urls) + B - 1) \div B) |->
        SubSeq(limited_urls, (k - 1) * B + 1, Min(k * B, Len(limited_urls)))]

FilterValid(scraped_urls, input_url) ==
    SelectSeq(scraped_urls, LAMBDA url : is_valid_url(url, input_url))

\* a crawl that takes "no data" for a fault
crawl_strict(state, response, URL_LIMIT, BATCH_LIMIT) ==
    IF response.raised \/ ~response.has_data THEN Raises("discovery fault", state)
    ELSE LET scraped_urls == IF response.has_links THEN response.links ELSE <<>>
             valid_urls == FilterValid(scraped_urls, state.url)
             limited_urls == PySliceTo(valid_urls, URL_LIMIT)
         IN  Returns([state EXCEPT !.url_batches = Batches(limited_urls, BATCH_LIMIT)],
                     NoResult)

\* response: [raised, has_data, has_links, links] of firecrawl_app.crawl
crawl(state, response, URL_LIMIT, BATCH_LIMIT) ==
    IF response.raised THEN Raises("discovery fault", state)
    ELSE IF response.has_data
    THEN LET scraped_urls == IF response.has_links THEN response.links ELSE <<>>
             valid_urls == FilterValid(scraped_urls, state.url)
             limited_urls == PySliceTo(valid_urls, URL_LIMIT)
         IN  IF BATCH_LIMIT = 0
             THEN Raises("range() arg 3 must not be zero", state)
             ELSE IF BATCH_LIMIT < 0
             THEN Returns([state EXCEPT !.url_batches = <<>>], NoResult)
             ELSE Returns([state EXCEPT !.url_batches = Batches(limited_urls, BATCH_LIMIT)],
                          NoResult)
    ELSE Returns([state EXCEPT !.url_batches = <<>>], NoResult)

\* a scrap that takes the batch off url_batches before it asks for its pages
scrap_pop_first(state, response) ==
    IF state.url_batches # <<>>
    THEN LET popped == [state EXCEPT !.url_batches = Tail(state.url_batches)]
         IN  IF response.raised THEN Raises("fetch fault", popped)
             ELSE Returns([popped EXCEPT !.scraped_data = response.data], NoResult)
    ELSE Returns([state EXCEPT !.scraped_data = <<>>], NoResult)

\* response: [raised, data] of firecrawl_app.batch_scrape
scrap(state, response) ==
    IF state.url_batches # <<>>
    THEN IF response.raised THEN Raises("fetch fault", state)
         ELSE IF response.data # <<>>
         THEN Returns([state EXCEPT !.scraped_data = response.data,
                                    !.url_batches = Tail(state.url_batches)], NoResult)
         ELSE Returns([state EXCEPT !.scraped_data = <<>>], NoResult)
    ELSE Returns([state EXCEPT !.scraped_data = <<>>], NoResult)

\* markdown[:2000] if markdown and len(markdown) > 2000 else markdown
Truncate(markdown) ==
    IF markdown # <<>> /\ Len(markdown) > MAX_MARKDOWN
    THEN PySliceTo(markdown, MAX_MARKDOWN) ELSE markdown

\* re.search(r'```(?:json)?\s*(\{.*?\})\s*```', ...): the fenced object, if any
json_match(content_str) ==
    IF content_str = "fenced_json" THEN "json" ELSE content_str

\* json.loads: TRUE when the text parses
json_loads(content_str) == content_str = "json"

ParsedResponse == [title |-> "T", description |-> <<7>>]
FallbackResponse(markdown) ==
    [title |-> "Error parsing content",
     description |-> PySliceTo(markdown, FALLBACK_DESCRIPTION)]

LlmContents == {"json", "fenced_json", "fenced_text", "text"}
LlmResponses == {"raise", "None"} \cup LlmContents

RECURSIVE format_loop(_, _, _, _)
format_loop(scraped_data, responses, i, formatted_data) ==
    IF i > Len(scraped_data) THEN [raised |-> FALSE, formatted_data |-> formatted_data]
    ELSE LET content == scraped_data[i]
             markdown == Truncate(markdown_text(content.markdown))
             response == responses[i]
         IN  IF ~content.has_metadata
             THEN format_loop(scraped_data, responses, i + 1, formatted_data)
             ELSE IF markdown_text(content.markdown) = <<>>
             THEN format_loop(scraped_data, responses, i + 1, formatted_data)
             ELSE IF response = "raise"
             THEN [raised |-> TRUE, formatted_data |-> formatted_data]
             ELSE IF response = "None"
             THEN format_loop(scraped_data, responses, i + 1, formatted_data)
             ELSE IF json_loads(json_match(response))
             THEN format_loop(scraped_data, responses, i + 1,
                      Append(formatted_data,
                             [url |-> content.url, response |-> ParsedResponse]))
             ELSE format_loop(scraped_data, responses, i + 1,
                      Append(formatted_data,
                             [url |-> content.url, response |-> FallbackResponse(markdown)]))

\* responses: page index -> what llm.invoke gives for that page
format(state, responses) ==
    LET done == format_loop(state.scraped_data, responses, 1, <<>>)
    IN  IF done.raised THEN Raises("summarization fault", state)
        ELSE Returns([state EXCEPT !.formatted_data = done.formatted_data], NoResult)

\* sink: "ok", or the fault of open() / json.dump()
save(state, sink) ==
    LET source_url == state.url
        formatted_data == state.formatted_data
    IN  IF source_url # "" /\ formatted_data # <<>>
        THEN IF sink = "ok"
             THEN Returns(state, Output(source_url, formatted_data))
             ELSE Raises("sink fault", state)
        ELSE Returns(state, NoResult)

\* a handler that clears the fault without counting the retry
error_handler_uncounted(state) ==
    [state EXCEPT !.error = ""]

error_handler(state) ==
    [state EXCEPT !.retry_count = state.retry_count + 1, !.error = ""]

----------------------------------------------------------------------------
(* The graph: agent/agent.py, the transition table of the pipeline *)

route_after(node, state) ==
    IF state.error # "" THEN "error_handler"
    ELSE CASE node = CRAWL -> IF state.url_batches # <<>> THEN SCRAP ELSE SAVE
           [] node = SCRAP -> FORMAT
           [] node = FORMAT -> IF state.url_batches # <<>> THEN SCRAP ELSE SAVE
           [] OTHER -> "done"

\* the retry budget is spent: the run aborts instead of re-entering the stage
budget_spent(state) == state.retry_count >= RetryBudget

----------------------------------------------------------------------------
(* What the capabilities may answer *)

LinkPool == {"a", "b", "x"}
LinkSeqs == UNION {[1..n -> LinkPool] : n \in 0..MaxLinks}

CrawlAnswer(raised, has_data, has_links, links) ==
    [raised |-> raised, has_data |-> has_data, has_links |-> has_links, links |-> links]

\* rich: every answer; otherwise one answer of each kind the job store can tell apart
CrawlResponses(rich) ==
    IF rich
    THEN {CrawlAnswer(TRUE, FALSE, FALSE, <<>>), CrawlAnswer(FALSE, FALSE, FALSE, <<>>),
          CrawlAnswer(FALSE, TRUE, FALSE, <<>>)}
         \cup {CrawlAnswer(FALSE, TRUE, TRUE, l) : l \in LinkSeqs}
    ELSE {CrawlAnswer(FALSE, FALSE, FALSE, <<>>), CrawlAnswer(FALSE, TRUE, TRUE, <<"a", "b">>)}

Document(has_metadata, url, markdown) ==
    [has_metadata |-> has_metadata, url |-> url, markdown |-> markdown]

\* the documents the fetch capability may give for one url: none, or one
DocumentsFor(url, rich) ==
    IF rich
    THEN {<<>>, <<Document(FALSE, "", "short")>>}
         \cup {<<Document(TRUE, url, m)>> : m \in MarkdownKeys}
    ELSE {<<Document(TRUE, url, "short")>>}

RECURSIVE BatchData(_, _)
BatchData(batch, rich) ==
    IF batch = <<>> THEN {<<>>}
    ELSE {d \o rest : d \in DocumentsFor(Head(batch), rich),
                      rest \in BatchData(Tail(batch), rich)}

ScrapAnswer(raised, data) == [raised |-> raised, data |-> data]

ScrapResponses(batch, rich) ==
    {ScrapAnswer(TRUE, <<>>)}
    \cup (IF rich THEN {ScrapAnswer(FALSE, <<>>)} ELSE {})
    \cup {ScrapAnswer(FALSE, d) : d \in BatchData(batch, rich)}

\* format calls llm.invoke for the pages with metadata and text only
Summarizable(content) == content.has_metadata /\ markdown_text(content.markdown) # <<>>

FormatResponses(scraped_data, rich) ==
    LET called == {i \in 1..Len(scraped_data) : Summarizable(scraped_data[i])}
    IN  {responses \in [1..Len(scraped_data) ->
                          {"not called"} \cup (IF rich THEN LlmResponses ELSE {"json"})] :
            \A i \in 1..Len(scraped_data) : responses[i] = "not called" <=> i \notin called}

SinkOutcomes(rich) == IF rich THEN {"ok", "open_fault", "dump_fault"} ELSE {"ok"}

----------------------------------------------------------------------------
(* One run of the graph: graph.invoke({"url": url}) *)

Run(kind, job_id, url, pc) ==
    [kind |-> kind, job_id |-> job_id, url |-> url, pc |-> pc, node |-> "",
     state |-> initialize(""), result |-> NoResult]

NoExchange == [stage |-> ""]

\* history of a run: what discovery answered, how many batches were planned,
\* every summary a Summarize pass has produced, and whether Summarize faulted
NoHistory ==
    [discovered |-> "", planned |-> 0, summaries |-> <<>>,
     format_faulted |-> FALSE]

NoLinks(response) ==
    ~response.raised /\ (~response.has_data \/ ~response.has_links \/ response.links = <<>>)

Recorded(h, identifier, out, exchange) ==
    IF out.fault
    THEN [h EXCEPT !.format_faulted = h.format_faulted \/ identifier = FORMAT]
    ELSE CASE identifier = CRAWL ->
                [h EXCEPT !.discovered = IF NoLinks(exchange.response) THEN "none" ELSE "some",
                          !.planned = Len(out.state.url_batches)]
           [] identifier = FORMAT ->
                [h EXCEPT !.summaries = h.summaries \o out.state.formatted_data]
           [] OTHER -> h

Invoking(r) == r \in DOMAIN runs /\ runs[r].pc = "invoking"

\* a stage has run inside try_except_decorator; the graph routes on
Staged(r, identifier, out, exchange) ==
    LET wrapped == try_except_decorator(identifier, runs[r].state, out)
    IN  /\ runs' = [runs EXCEPT ![r].state = wrapped.state,
                                ![r].result = wrapped.result,
                                ![r].node = route_after(identifier, wrapped.state)]
        /\ io' = [io EXCEPT ![r] = exchange]
        /\ history' = [history EXCEPT ![r] = Recorded(history[r], identifier, out, exchange)]

Initialize(r) ==
    /\ Invoking(r) /\ runs[r].node = "initialize"
    /\ runs' = [runs EXCEPT ![r].state = initialize(runs[r].url), ![r].node = CRAWL]
    /\ io' = [io EXCEPT ![r] = [stage |-> "initialize"]]
    /\ UNCHANGED <<jobs_store, next_uuid, clock, scraped_data_json, http, environ, history>>

Crawl(r, rich) ==
    /\ Invoking(r) /\ runs[r].node = CRAWL
    /\ \E response \in CrawlResponses(rich) :
          Staged(r, CRAWL,
                 crawl(runs[r].state, response, environ.URL_LIMIT, environ.BATCH_LIMIT),
                 [stage |-> CRAWL, response |-> response])
    /\ UNCHANGED <<jobs_store, next_uuid, clock, scraped_data_json, http, environ>>

Scrap(r, rich) ==
    /\ Invoking(r) /\ runs[r].node = SCRAP
    /\ LET batches == runs[r].state.url_batches
           current_batch == IF batches # <<>> THEN Head(batches) ELSE <<>>
       IN  \E response \in ScrapResponses(current_batch, rich) :
              Staged(r, SCRAP, scrap(runs[r].state, response),
                     [stage |-> SCRAP, urls |-> current_batch, response |-> response])
    /\ UNCHANGED <<jobs_store, next_uuid, clock, scraped_data_json, http, environ>>

Format(r, rich) ==
    /\ Invoking(r) /\ runs[r].node = FORMAT
    /\ \E responses \in FormatResponses(runs[r].state.scraped_data, rich) :
          Staged(r, FORMAT, format(runs[r].state, responses),
                 [stage |-> FORMAT, responses |-> responses])
    /\ UNCHANGED <<jobs_store, next_uuid, clock, scraped_data_json, http, environ>>

\* open("scraped_data.json", "w") truncates; json.dump then writes the record
save_file(state, sink, file) ==
    IF state.url # "" /\ state.formatted_data # <<>>
    THEN CASE sink = "ok" -> Output(state.url, state.formatted_data)
           [] sink = "dump_fault" -> EmptyDict
           [] OTHER -> file
    ELSE file

\* save opens the file only when there is something to write
Writes(state) == state.url # "" /\ state.formatted_data # <<>>

Save(r, rich) ==
    /\ Invoking(r) /\ runs[r].node = SAVE
    /\ \E sink \in IF Writes(runs[r].state) THEN SinkOutcomes(rich) ELSE {"not called"} :
          /\ Staged(r, SAVE, save(runs[r].state, sink), [stage |-> SAVE, sink |-> sink])
          /\ scraped_data_json' = save_file(runs[r].state, sink, scraped_data_json)
    /\ UNCHANGED <<jobs_store, next_uuid, clock, http, environ>>

ErrorHandler(r) ==
    /\ Invoking(r) /\ runs[r].node = "error_handler"
    /\ IF budget_spent(runs[r].state)
       THEN runs' = [runs EXCEPT ![r].node = "aborted"]
       ELSE runs' = [runs EXCEPT ![r].state = error_handler(runs[r].state),
                                 ![r].node = runs[r].state.failed_node]
    /\ io' = [io EXCEPT ![r] = [stage |-> "error_handler"]]
    /\ UNCHANGED <<jobs_store, next_uuid, clock, scraped_data_json, http, environ, history>>

----------------------------------------------------------------------------
(* The job supervisor: src/main.py *)

None == "None"

Job(job_id, url_str, created_at) ==
    [job_id |-> job_id,
     url |-> url_str,
     status |-> PENDING,
     created_at |-> created_at,
     completed_at |-> NoTime,
     result |-> NoResult,
     error |-> None]

Response(op, job_id, code, detail, body) ==
    [op |-> op, job_id |-> job_id, code |-> code, detail |-> detail, body |-> body]

NoResponse == Response("", 0, 0, "", NoResult)

JobIds == 1..MaxJobs

\* POST /scrape
create_scrape_job(url_str) ==
    /\ next_uuid <= MaxJobs
    /\ LET job_id == next_uuid
       IN  /\ jobs_store' = jobs_store @@ (job_id :> Job(job_id, url_str, clock))
           /\ runs' = runs @@ (job_id :> Run("job", job_id, url_str, "scheduled"))
           /\ io' = io @@ (job_id :> NoExchange)
           /\ history' = history @@ (job_id :> NoHistory)
           /\ http' = Response("create_scrape_job", job_id, 202,
                               "Scraping job created successfully",
                               Job(job_id, url_str, clock))
    /\ next_uuid' = next_uuid + 1
    /\ clock' = clock + 1
    /\ UNCHANGED <<scraped_data_json, environ>>

\* main.py:78
set_running(store, job_id) == [store EXCEPT ![job_id].status = RUNNING]

\* a handler that leaves a note in the error field of a finished job
set_completed_noted(store, job_id, now, result) ==
    [store EXCEPT ![job_id].status = COMPLETED,
                  ![job_id].completed_at = now,
                  ![job_id].result = IF result.tag = "None" THEN EmptyDict ELSE result,
                  ![job_id].error = ""]

\* main.py:88-90, result.get("result", {})
set_completed(store, job_id, now, result) ==
    [store EXCEPT ![job_id].status = COMPLETED,
                  ![job_id].completed_at = now,
                  ![job_id].result = IF result.tag = "None" THEN EmptyDict ELSE result]

\* a handler that records the failure without its time
set_failed_untimed(store, job_id, now, e) ==
    [store EXCEPT ![job_id].status = FAILED, ![job_id].error = e]

\* main.py:93-95
set_failed(store, job_id, now, e) ==
    [store EXCEPT ![job_id].status = FAILED,
                  ![job_id].completed_at = now,
                  ![job_id].error = e]

\* run_scraping_job up to the await: a missing record is a KeyError at line 78
\* and again at line 93 inside the handler, which leaves the task
RunStart(r) ==
    /\ r \in DOMAIN runs /\ runs[r].kind = "job" /\ runs[r].pc = "scheduled"
    /\ IF runs[r].job_id \in DOMAIN jobs_store
       THEN /\ jobs_store' = set_running(jobs_store, runs[r].job_id)
            /\ runs' = [runs EXCEPT ![r].pc = "invoking", ![r].node = "initialize"]
       ELSE /\ jobs_store' = jobs_store
            /\ runs' = [runs EXCEPT ![r].pc = "raised"]
    /\ UNCHANGED <<next_uuid, clock, scraped_data_json, io, http, environ, history>>

\* run_scraping_job after the await: graph.invoke returned or raised
RunFinish(r) ==
    /\ Invoking(r) /\ runs[r].kind = "job" /\ runs[r].node \in {"done", "aborted"}
    /\ IF runs[r].job_id \in DOMAIN jobs_store
       THEN /\ jobs_store' =
                 IF runs[r].node = "done"
                 THEN set_completed(jobs_store, runs[r].job_id, clock, runs[r].result)
                 ELSE set_failed(jobs_store, runs[r].job_id, clock, runs[r].state.error)
            /\ clock' = clock + 1
            /\ runs' = [runs EXCEPT ![r].pc = "returned"]
       ELSE /\ UNCHANGED <<jobs_store, clock>>
            /\ runs' = [runs EXCEPT ![r].pc = "raised"]
    /\ UNCHANGED <<next_uuid, scraped_data_json, io, http, environ, history>>

\* GET /jobs/{job_id}
get_job_status(store, job_id) ==
    IF job_id \notin DOMAIN store
    THEN Response("get_job_status", job_id, 404, "Job not found", NoResult)
    ELSE Response("get_job_status", job_id, 200, "", store[job_id])

\* a handler without the check of the Failed status
get_job_result_unguarded(store, job_id) ==
    IF job_id \notin DOMAIN store
    THEN Response("get_job_result", job_id, 404, "Job not found", NoResult)
    ELSE LET job == store[job_id]
         IN  IF job.status = PENDING \/ job.status = RUNNING
             THEN Response("get_job_result", job_id, 425, "Job is still", NoResult)
             ELSE IF ~Truthy(job.result)
             THEN Response("get_job_result", job_id, 404,
                           "No result found for this job", NoResult)
             ELSE Response("get_job_result", job_id, 200, "", job.result)

\* GET /jobs/{job_id}/result
get_job_result(store, job_id) ==
    IF job_id \notin DOMAIN store
    THEN Response("get_job_result", job_id, 404, "Job not found", NoResult)
    ELSE LET job == store[job_id]
         IN  IF job.status = PENDING \/ job.status = RUNNING
             THEN Response("get_job_result", job_id, 425, "Job is still", NoResult)
             ELSE IF job.status = FAILED
             THEN Response("get_job_result", job_id, 500, job.error, NoResult)
             ELSE IF ~Truthy(job.result)
             THEN Response("get_job_result", job_id, 404,
                           "No result found for this job", NoResult)
             ELSE Response("get_job_result", job_id, 200, "", job.result)

GetJobStatus(job_id) ==
    /\ http' = get_job_status(jobs_store, job_id)
    /\ UNCHANGED <<jobs_store, next_uuid, clock, runs, scraped_data_json, io, environ, history>>

GetJobResult(job_id) ==
    /\ http' = get_job_result(jobs_store, job_id)
    /\ UNCHANGED <<jobs_store, next_uuid, clock, runs, scraped_data_json, io, environ, history>>

\* a removal that spares the record of a job whose run is in flight
Without_idle_only(store, job_id) ==
    IF store[job_id].status = RUNNING THEN store
    ELSE [j \in DOMAIN store \ {job_id} |-> store[j]]

\* del jobs_store[job_id]
Without(store, job_id) == [j \in DOMAIN store \ {job_id} |-> store[j]]

\* DELETE /jobs/{job_id}
delete_job(job_id) ==
    /\ IF job_id \notin DOMAIN jobs_store
       THEN /\ http' = Response("delete_job", job_id, 404, "Job not found", NoResult)
            /\ jobs_store' = jobs_store
       ELSE /\ http' = Response("delete_job", job_id, 200,
                                "Job deleted successfully", NoResult)
            /\ jobs_store' = Without(jobs_store, job_id)
    /\ UNCHANGED <<next_uuid, clock, runs, scraped_data_json, io, environ, history>>

\* POST /scrape/sync after the await: the HTTPException raised inside the try
\* is caught by "except Exception" like any fault of the graph
scrape_sync(node, result, error) ==
    IF node = "done"
    THEN IF ~Truthy(result)
         THEN Response("scrape_sync", 0, 500,
                       "Scraping failed: Scraping completed but no data was returned",
                       NoResult)
         ELSE Response("scrape_sync", 0, 200, "", result)
    ELSE Response("scrape_sync", 0, 500, error, NoResult)

\* a handler that files the finished request in the job store
SyncFinish_filed(r) ==
    /\ Invoking(r) /\ runs[r].kind = "sync" /\ runs[r].node \in {"done", "aborted"}
    /\ http' = scrape_sync(runs[r].node, runs[r].result, runs[r].state.error)
    /\ runs' = [runs EXCEPT ![r].pc = "responded"]
    /\ jobs_store' = (next_uuid :> Job(next_uuid, runs[r].url, clock)) @@ jobs_store
    /\ UNCHANGED <<next_uuid, clock, scraped_data_json, io, environ, history>>

SyncFinish(r) ==
    /\ Invoking(r) /\ runs[r].kind = "sync" /\ runs[r].node \in {"done", "aborted"}
    /\ http' = scrape_sync(runs[r].node, runs[r].result, runs[r].state.error)
    /\ runs' = [runs EXCEPT ![r].pc = "responded"]
    /\ UNCHANGED <<jobs_store, next_uuid, clock, scraped_data_json, io, environ, history>>

\* POST /scrape/sync up to the await: graph.invoke({"url": url_str}) starts
\* in a worker thread; one such request at a time, a finished one is forgotten
ScrapeSyncStart(url_str) ==
    /\ \A r \in DOMAIN runs : runs[r].kind = "sync" /\ runs[r].pc = "responded"
    /\ runs' = <<[Run("sync", 0, url_str, "invoking") EXCEPT !.node = "initialize"]>>
    /\ io' = <<NoExchange>>
    /\ history' = <<NoHistory>>
    /\ UNCHANGED <<jobs_store, next_uuid, clock, scraped_data_json, http, environ>>

\* list(jobs_store.values()): the records in insertion order, which is the
\* order of the ids here
RECURSIVE Values(_)
Values(store) ==
    IF DOMAIN store = {} THEN <<>>
    ELSE LET first == CHOOSE j \in DOMAIN store : \A k \in DOMAIN store : j <= k
         IN  <<store[first]>> \o Values(Without(store, first))

\* one step of the stable sort, most recent first: job goes behind every
\* record that is as recent or more recent
Insert(sorted, job) ==
    LET p == Cardinality({i \in 1..Len(sorted) :
                             sorted[i].created_at >= job.created_at})
    IN  SubSeq(sorted, 1, p) \o <<job>> \o SubSeq(sorted, p + 1, Len(sorted))

\* jobs.sort(key=lambda x: x["created_at"], reverse=True)
RECURSIVE sort_reverse(_, _)
sort_reverse(jobs, sorted) ==
    IF jobs = <<>> THEN sorted
    ELSE sort_reverse(Tail(jobs), Insert(sorted, Head(jobs)))

\* a handler that takes the first `limit` records before it sorts them
list_jobs_cut_first(store, status, limit) ==
    LET all == Values(store)
        filtered == IF status # None
                    THEN SelectSeq(all, LAMBDA job : job.status = status) ELSE all
        jobs == sort_reverse(PySliceTo(filtered, limit), <<>>)
    IN  Response("list_jobs", 0, 200, "", [total |-> Len(jobs), jobs |-> jobs])

\* GET /jobs; Query(ge=1, le=100) turns any other limit away with 422
list_jobs(store, status, limit) ==
    IF limit < LIMIT_MIN \/ limit > LIMIT_MAX
    THEN Response("list_jobs", 0, 422, "limit out of range", NoResult)
    ELSE LET all == Values(store)
             filtered == IF status # None
                         THEN SelectSeq(all, LAMBDA job : job.status = status) ELSE all
             jobs == PySliceTo(sort_reverse(filtered, <<>>), limit)
         IN  Response("list_jobs", 0, 200, "", [total |-> Len(jobs), jobs |-> jobs])

\* the query of the last GET /jobs, kept beside the response
ListJobs(status, limit) ==
    /\ http' = [query |-> [status |-> status, limit |-> limit]]
                @@ list_jobs(jobs_store, status, limit)
    /\ UNCHANGED <<jobs_store, next_uuid, clock, runs, scraped_data_json, io, environ, history>>

----------------------------------------------------------------------------
(* Specifications *)

Environ(url_limit, batch_limit) == [URL_LIMIT |-> url_limit, BATCH_LIMIT |-> batch_limit]

\* the service after start-up: no job, no request in flight; the handlers that
\* write the job store and the runs they start (the handlers that only read
\* it are in SpecFront, against every store)
Init ==
    /\ jobs_store = <<>>
    /\ next_uuid = 1
    /\ clock = 1
    /\ runs = <<>>
    /\ scraped_data_json = NoResult
    /\ io = <<>>
    /\ http = NoResponse
    /\ environ = Environ(1, 1)
    /\ history = <<>>

Next ==
    \/ create_scrape_job(SeedUrl)
    \/ \E job_id \in JobIds : delete_job(job_id)
    \/ \E r \in DOMAIN runs : RunStart(r)
    \/ \E r \in DOMAIN runs : Initialize(r)
    \/ \E r \in DOMAIN runs : Crawl(r, FALSE)
    \/ \E r \in DOMAIN runs : Scrap(r, FALSE)
    \/ \E r \in DOMAIN runs : Format(r, FALSE)
    \/ \E r \in DOMAIN runs : Save(r, FALSE)
    \/ \E r \in DOMAIN runs : ErrorHandler(r)
    \/ \E r \in DOMAIN runs : RunFinish(r)

Spec == Init /\ [][Next]_vars

\* one request in flight, POST /scrape or POST /scrape/sync, and every answer
\* the capabilities can give
InitPipe ==
    /\ scraped_data_json = NoResult
    /\ io = <<NoExchange>>
    /\ history = <<NoHistory>>
    /\ http = NoResponse
    /\ \E url_limit \in 1..MaxLinks, batch_limit \in 1..MaxBatchLimit :
          environ = Environ(url_limit, batch_limit)
    /\ \/ /\ jobs_store = <<Job(1, SeedUrl, 1)>>
          /\ next_uuid = 2
          /\ clock = 2
          /\ runs = <<Run("job", 1, SeedUrl, "scheduled")>>
       \/ /\ jobs_store = <<>>
          /\ next_uuid = 1
          /\ clock = 1
          /\ runs = <<[Run("sync", 0, SeedUrl, "invoking") EXCEPT !.node = "initialize"]>>

NextPipe ==
    \/ \E r \in DOMAIN runs : RunStart(r)
    \/ \E r \in DOMAIN runs : Initialize(r)
    \/ \E r \in DOMAIN runs : Crawl(r, TRUE)
    \/ \E r \in DOMAIN runs : Scrap(r, TRUE)
    \/ \E r \in DOMAIN runs : Format(r, TRUE)
    \/ \E r \in DOMAIN runs : Save(r, TRUE)
    \/ \E r \in DOMAIN runs : ErrorHandler(r)
    \/ \E r \in DOMAIN runs : RunFinish(r)
    \/ \E r \in DOMAIN runs : SyncFinish(r)

SpecPipe == InitPipe /\ [][NextPipe]_vars

\* the thread that runs the graph keeps running, and every capability call
\* returns: a step that stays possible is taken
FairSpecPipe == SpecPipe /\ WF_vars(NextPipe)

\* one request in flight under any BATCH_LIMIT that int() can read, zero and
\* the negative numbers too
InitConf ==
    /\ scraped_data_json = NoResult
    /\ io = <<NoExchange>>
    /\ history = <<NoHistory>>
    /\ http = NoResponse
    /\ \E url_limit \in 1..MaxLinks, batch_limit \in (-MaxBatchLimit)..MaxBatchLimit :
          environ = Environ(url_limit, batch_limit)
    /\ \/ /\ jobs_store = <<Job(1, SeedUrl, 1)>>
          /\ next_uuid = 2
          /\ clock = 2
          /\ runs = <<Run("job", 1, SeedUrl, "scheduled")>>
       \/ /\ jobs_store = <<>>
          /\ next_uuid = 1
          /\ clock = 1
          /\ runs = <<[Run("sync", 0, SeedUrl, "invoking") EXCEPT !.node = "initialize"]>>

SpecConf == InitConf /\ [][NextPipe]_vars

\* the record of job_id as run_scraping_job leaves it in the given status,
\* result being what graph.invoke returned if it did
StoredJob(job_id, status, result) ==
    LET created == (job_id :> Job(job_id, SeedUrl, job_id))
        started == set_running(created, job_id)
        now == MaxJobs + job_id
    IN  CASE status = PENDING -> created[job_id]
          [] status = RUNNING -> started[job_id]
          [] status = COMPLETED -> set_completed(started, job_id, now, result)[job_id]
          [] OTHER -> set_failed(started, job_id, now, "fetch fault")[job_id]

\* what a run can return: no result, or the record of save
RunResults ==
    {NoResult, Output(SeedUrl, <<[url |-> "a", response |-> ParsedResponse]>>)}

\* every store of at most MaxJobs jobs, created in the order of their ids
Stores ==
    UNION {{[j \in ids |-> StoredJob(j, statuses[j], results[j])] :
               statuses \in [ids -> JobStatus], results \in [ids -> RunResults]} :
              ids \in SUBSET JobIds}

Limits == {LIMIT_MIN - 1, LIMIT_MIN, MaxJobs - 1, LIMIT_MAX, LIMIT_MAX + 1}

\* the handlers that only read the job store, GET /jobs, GET /jobs/{job_id}
\* and GET /jobs/{job_id}/result, against any store
InitFront ==
    /\ jobs_store \in Stores
    /\ next_uuid = MaxJobs + 1
    /\ clock = 2 * MaxJobs + 1
    /\ runs = <<>>
    /\ scraped_data_json = NoResult
    /\ io = <<>>
    /\ http = NoResponse
    /\ environ = Environ(1, 1)
    /\ history = <<>>

NextFront ==
    \/ \E status \in {None} \cup JobStatus, limit \in Limits : ListJobs(status, limit)
    \/ \E job_id \in JobIds : GetJobStatus(job_id)
    \/ \E job_id \in JobIds : GetJobResult(job_id)

SpecFront == InitFront /\ [][NextFront]_vars

\* POST /scrape/sync beside any store, while records are being removed
NextSync ==
    \/ ScrapeSyncStart(SeedUrl)
    \/ \E r \in DOMAIN runs : Initialize(r)
    \/ \E r \in DOMAIN runs : Crawl(r, FALSE)
    \/ \E r \in DOMAIN runs : Scrap(r, FALSE)
    \/ \E r \in DOMAIN runs : Format(r, FALSE)
    \/ \E r \in DOMAIN runs : Save(r, FALSE)
    \/ \E r \in DOMAIN runs : ErrorHandler(r)
    \/ \E r \in DOMAIN runs : SyncFinish(r)
    \/ \E job_id \in JobIds : delete_job(job_id)

SpecSync == InitFront /\ [][NextSync]_vars

----------------------------------------------------------------------------
(* Properties *)

Terminal(status) == status \in {COMPLETED, FAILED}

\* what the run of a stored job is doing, by the job's status
RunMatches(store, rs, j) ==
    /\ store[j].status = PENDING <=> rs[j].pc = "scheduled"
    /\ store[j].status = RUNNING <=> rs[j].pc = "invoking"
    /\ Terminal(store[j].status) <=> rs[j].pc = "returned"

\* C1: every stored job starts Pending, becomes Running when run_scraping_job
\* starts, then moves exactly once to Completed or Failed and never changes
\* afterwards; completed_at is set exactly when the status is Completed or Failed.
C1_JobLifecycle ==
    [][\A j \in DOMAIN jobs_store' :
          /\ j \notin DOMAIN jobs_store => jobs_store'[j].status = PENDING
          /\ j \in DOMAIN jobs_store =>
                \/ jobs_store'[j].status = jobs_store[j].status
                \/ jobs_store[j].status = PENDING /\ jobs_store'[j].status = RUNNING
                \/ jobs_store[j].status = RUNNING /\ Terminal(jobs_store'[j].status)
          /\ jobs_store'[j].completed_at # NoTime <=> Terminal(jobs_store'[j].status)
          /\ RunMatches(jobs_store', runs', j)]_vars

\* C1 witness: one job has ended Completed and another Failed
C1_Witness ==
    \E j, k \in DOMAIN jobs_store :
        /\ jobs_store[j].status = COMPLETED /\ jobs_store[j].completed_at # NoTime
        /\ jobs_store[k].status = FAILED /\ jobs_store[k].completed_at # NoTime

\* C2: a remove(jobId) while the job's run is Pending or Running never makes
\* run_scraping_job raise: the run's later writes treat the missing record as
\* a no-op.
C2_RunNeverRaises ==
    \A r \in DOMAIN runs : runs[r].kind = "job" => runs[r].pc # "raised"

IsPrefix(s, t) == Len(s) <= Len(t) /\ SubSeq(t, 1, Len(s)) = s

\* the step of run r just taken was the stage `identifier`
StageStep(r, identifier) ==
    /\ runs[r].pc = "invoking" /\ runs[r].node = identifier
    /\ runs'[r] # runs[r]
    /\ io'[r].stage = identifier

\* C3: formatted_data is append-only across the run: no stage removes or
\* replaces an entry already in it, so it always holds every summary produced
\* so far, the earlier batches' summaries as a prefix.
C3_AppendOnly ==
    [][\A r \in DOMAIN runs :
          runs[r].pc = "invoking" /\ runs[r].node # "initialize" =>
              /\ IsPrefix(runs[r].state.formatted_data, runs'[r].state.formatted_data)
              /\ runs'[r].state.formatted_data = history'[r].summaries]_vars

\* C4: in a run with several batches where a Summarize call faulted and the
\* re-entered stage then succeeded, the job ends Completed and its result holds
\* the seed url and one summary per summarised page of every batch, in order.
C4_RetryKeepsEveryBatch ==
    \A r \in DOMAIN runs :
        (/\ runs[r].kind = "job" /\ runs[r].pc = "returned" /\ runs[r].node = "done"
         /\ history[r].planned >= 2 /\ history[r].format_faulted
         /\ history[r].summaries # <<>>)
        => /\ jobs_store[runs[r].job_id].status = COMPLETED
           /\ jobs_store[runs[r].job_id].result = Output(SeedUrl, history[r].summaries)

\* C5: when FetchBatch runs with a pending batch and the fetch capability
\* returns no data without raising, the first batch is still removed from
\* url_batches and scraped_data becomes empty.
C5_NoDataConsumesBatch ==
    [][\A r \in DOMAIN runs :
          (/\ StageStep(r, SCRAP)
           /\ runs[r].state.url_batches # <<>>
           /\ ~io'[r].response.raised /\ io'[r].response.data = <<>>)
          => /\ runs'[r].state.url_batches = Tail(runs[r].state.url_batches)
             /\ runs'[r].state.scraped_data = <<>>]_vars

\* C6: every pipeline run reaches a terminal state, Done or Aborted, when
\* every capability call returns: the FetchBatch -> Summarize loop cannot go
\* round forever on the same head batch.
C6_Terminates ==
    <>(\A r \in DOMAIN runs : runs[r].node \in {"done", "aborted"})

\* C7: in Summarize, a page with content whose summarization call returns no
\* content, or output that does not parse, is not dropped: the stage does not
\* fault and records, for the page's url, the title "Error parsing content"
\* and the first 200 characters of the truncated content.
C7_FallbackNeverDrops ==
    [][\A r \in DOMAIN runs :
          (/\ StageStep(r, FORMAT)
           /\ \A i \in DOMAIN io'[r].responses : io'[r].responses[i] # "raise")
          => /\ runs'[r].state.error = ""
             /\ \A i \in 1..Len(runs[r].state.scraped_data) :
                   LET page == runs[r].state.scraped_data[i]
                       content == Truncate(markdown_text(page.markdown))
                   IN  (/\ page.has_metadata /\ content # <<>>
                        /\ io'[r].responses[i] \in {"None", "text", "fenced_text"})
                       => \E k \in 1..Len(runs'[r].state.formatted_data) :
                             runs'[r].state.formatted_data[k] =
                                [url |-> page.url,
                                 response |->
                                    [title |-> "Error parsing content",
                                     description |-> SubSeq(content, 1,
                                         Min(FALLBACK_DESCRIPTION, Len(content)))]]]_vars

\* C8: getResult answers not-found for an id absent from the store whatever
\* the other jobs are, not-ready while the job is Pending or Running, the
\* failure with the stored error while it is Failed, and a result payload only
\* when it is Completed; getStatus answers not-found exactly for absent ids.
C8_ResultGuard ==
    [][(http' # http /\ http'.op \in {"get_job_result", "get_job_status"}) =>
          LET id == http'.job_id
              known == id \in DOMAIN jobs_store
          IN  IF http'.op = "get_job_status"
              THEN /\ http'.code = 404 <=> ~known
                   /\ known => http'.code = 200 /\ http'.body = jobs_store[id]
              ELSE /\ ~known => http'.code = 404 /\ http'.detail = "Job not found"
                   /\ known /\ jobs_store[id].status \in {PENDING, RUNNING}
                         => http'.code = 425
                   /\ known /\ jobs_store[id].status = FAILED
                         => /\ http'.code = 500
                            /\ http'.detail = jobs_store[id].error
                            /\ http'.detail # None
                   /\ http'.code = 200
                         => /\ known /\ jobs_store[id].status = COMPLETED
                            /\ http'.body = jobs_store[id].result
                            /\ http'.body.tag = "dict"]_vars

\* C8 witness: the result of a Failed job was asked for and the stored error
\* came back, with another job in the store
C8_Witness ==
    /\ http.op = "get_job_result" /\ http.code = 500
    /\ http.job_id \in DOMAIN jobs_store
    /\ jobs_store[http.job_id].status = FAILED
    /\ http.detail = jobs_store[http.job_id].error
    /\ \E other \in DOMAIN jobs_store : other # http.job_id

NoLinksResponses == {response \in CrawlResponses(TRUE) : NoLinks(response)}

\* C9: when discovery returns no data, or no links, Discover succeeds with no
\* batches and no fault recorded, and the run goes on to Done with empty
\* summaries and no result payload, never Aborted; Discover again on such an
\* answer gives the same outcome.
C9_NoLinksIsDone ==
    \A r \in DOMAIN runs :
        /\ history[r].discovered = "none" =>
              /\ runs[r].node \in {SAVE, "done"}
              /\ runs[r].state.url_batches = <<>>
              /\ runs[r].state.formatted_data = <<>>
              /\ runs[r].state.error = "" /\ runs[r].state.failed_node = ""
              /\ runs[r].result = NoResult
              /\ runs[r].pc = "returned" =>
                    /\ jobs_store[runs[r].job_id].status = COMPLETED
                    /\ jobs_store[runs[r].job_id].result = EmptyDict
        /\ \A response \in NoLinksResponses :
                 LET once == crawl(runs[r].state, response,
                                   environ.URL_LIMIT, environ.BATCH_LIMIT)
                     twice == crawl(once.state, response,
                                    environ.URL_LIMIT, environ.BATCH_LIMIT)
                 IN  ~once.fault /\ once.state.url_batches = <<>> /\ twice = once

\* C9 witness: discovery gave no links and the job's run ended Done
C9_Witness ==
    \E r \in DOMAIN runs :
        /\ history[r].discovered = "none"
        /\ runs[r].node = "done" /\ runs[r].pc = "returned"
        /\ jobs_store[runs[r].job_id].status = COMPLETED

\* C10: Persist gives a result record {source_url, data} exactly when the
\* summaries are non-empty and the seed url is set; otherwise it writes
\* nothing and the run ends Done with no result payload, which is a success
\* and is not reported as a failure.
C10_PersistContract ==
    [][\A r \in DOMAIN runs :
          /\ (StageStep(r, SAVE) /\ io'[r].sink \in {"ok", "not called"}) =>
                LET state == runs[r].state
                    wanted == state.formatted_data # <<>> /\ state.url # ""
                IN  /\ runs'[r].node = "done"
                    /\ wanted => /\ runs'[r].result = Output(state.url, state.formatted_data)
                                 /\ scraped_data_json' = runs'[r].result
                    /\ ~wanted => /\ runs'[r].result = NoResult
                                  /\ scraped_data_json' = scraped_data_json
          /\ (runs[r].pc = "invoking" /\ runs[r].node = "done" /\ runs'[r] # runs[r]) =>
                IF runs[r].kind = "sync"
                THEN http'.op = "scrape_sync" /\ http'.code = 200
                ELSE jobs_store'[runs[r].job_id].status = COMPLETED]_vars

\* the ids create_scrape_job has handed out whose record is gone
Removed(store, next) == {j \in 1..(next - 1) : j \notin DOMAIN store}

\* C11: delete_job answers 200 for a stored job whatever its status and takes
\* exactly that record out, answers 404 for an unknown id and changes nothing;
\* a record leaves the store only that way, and no later step, the run's
\* completion or failure write included, puts a removed id back.
C11_RemoveIsFinal ==
    [][/\ \A j \in Removed(jobs_store, next_uuid) : j \notin DOMAIN jobs_store'
       /\ \A j \in DOMAIN jobs_store \ DOMAIN jobs_store' :
             http'.op = "delete_job" /\ http'.job_id = j /\ http'.code = 200
       /\ (http' # http /\ http'.op = "delete_job") =>
             LET id == http'.job_id
             IN  IF id \in DOMAIN jobs_store
                 THEN /\ http'.code = 200
                      /\ DOMAIN jobs_store' = DOMAIN jobs_store \ {id}
                      /\ \A k \in DOMAIN jobs_store' : jobs_store'[k] = jobs_store[k]
                 ELSE /\ http'.code = 404 /\ http'.detail = "Job not found"
                      /\ jobs_store' = jobs_store]_vars

\* C11 witness: a job was removed while its run was in flight, the run has
\* come to its final write since, and the other job's record is still there
C11_Witness ==
    /\ http.op = "delete_job" /\ http.code = 200
    /\ http.job_id \in Removed(jobs_store, next_uuid)
    /\ runs[http.job_id].pc = "raised" /\ runs[http.job_id].node \in {"done", "aborted"}
    /\ \E other \in DOMAIN jobs_store : other # http.job_id

\* C12: list_jobs with 1 <= limit <= 100 answers with exactly the
\* min(limit, n) most recently created of the n stored jobs that match the
\* status filter (all jobs without a filter), most recent first: no job of
\* another status, none twice, never more than limit, and the store stays as
\* it was.
C12_ListContract ==
    [][(/\ http' # http /\ http'.op = "list_jobs"
        /\ http'.query.limit \in LIMIT_MIN..LIMIT_MAX) =>
          LET query == http'.query
              jobs == http'.body.jobs
              matching == {j \in DOMAIN jobs_store :
                              query.status = None \/ jobs_store[j].status = query.status}
              listed == {jobs[i].job_id : i \in 1..Len(jobs)}
          IN  /\ http'.code = 200
              /\ Len(jobs) = Min(query.limit, Cardinality(matching))
              /\ http'.body.total = Len(jobs)
              /\ listed \subseteq matching /\ Cardinality(listed) = Len(jobs)
              /\ \A i \in 1..Len(jobs) : jobs[i] = jobs_store[jobs[i].job_id]
              /\ \A i, k \in 1..Len(jobs) :
                    i < k => jobs[i].created_at >= jobs[k].created_at
              /\ \A j \in matching \ listed : \A i \in 1..Len(jobs) :
                    jobs[i].created_at >= jobs_store[j].created_at
              /\ jobs_store' = jobs_store]_vars

\* C12 witness: a list filtered by status and cut by the limit: two stored
\* jobs match, the answer holds the one created last
C12_Witness ==
    /\ http.op = "list_jobs" /\ http.code = 200
    /\ http.query.status # None /\ http.query.limit = LIMIT_MIN
    /\ \E j, k \in DOMAIN jobs_store :
          /\ jobs_store[j].status = http.query.status
          /\ jobs_store[k].status = http.query.status
          /\ jobs_store[j].created_at < jobs_store[k].created_at
          /\ http.body.jobs = <<jobs_store[k]>>

\* the step is one of a POST /scrape/sync: its start, a stage of its run, or
\* its response
SyncStep ==
    \E r \in DOMAIN runs' :
        /\ runs'[r].kind = "sync"
        /\ r \notin DOMAIN runs \/ runs'[r] # runs[r]

\* C13: scrape_sync goes past the job store: no step of a sync call, whether
\* the call ends with a result or with a failure, adds or removes a Job record
\* or changes a field of one, and no job id is handed out for it.
C13_SyncBypassesStore ==
    [][SyncStep => jobs_store' = jobs_store /\ next_uuid' = next_uuid]_vars

\* C13 witness: a sync call has answered with its result while the store holds
\* a job that is still Running
C13_Witness ==
    /\ http.op = "scrape_sync" /\ http.code = 200 /\ Truthy(http.body)
    /\ \E r \in DOMAIN runs : runs[r].kind = "sync" /\ runs[r].pc = "responded"
    /\ \E j \in DOMAIN jobs_store : jobs_store[j].status = RUNNING

RECURSIVE Flatten(_)
Flatten(batches) ==
    IF batches = <<>> THEN <<>> ELSE Head(batches) \o Flatten(Tail(batches))

\* batches is links, cut to its first `most`, in slices of at most `size`
WellPlanned(batches, links, most, size) ==
    LET kept == SubSeq(links, 1, Min(most, Len(links)))
    IN  /\ \A k \in 1..Len(batches) : batches[k] # <<>> /\ Len(batches[k]) <= size
        /\ Flatten(batches) = kept
        /\ Len(batches) = (Len(kept) + size - 1) \div size

\* crawl on every list of up to MaxLinks + 1 discovered links, under every
\* URL_LIMIT and BATCH_LIMIT from 1 to one above the bounds
PlannedCases ==
    \A links \in UNION {[1..n -> LinkPool] : n \in 0..(MaxLinks + 1)},
       most \in 1..(MaxLinks + 1), size \in 1..(MaxBatchLimit + 1) :
        LET out == crawl(initialize(SeedUrl), CrawlAnswer(FALSE, TRUE, TRUE, links),
                         most, size)
        IN  /\ ~out.fault
            /\ WellPlanned(out.state.url_batches, FilterValid(links, SeedUrl), most, size)

\* C14: for every list of valid discovered links and every batch size >= 1,
\* the batches crawl plans are each non-empty and no longer than the batch
\* size, their concatenation in order is the valid links cut to URL_LIMIT
\* (nothing reordered, nothing deduplicated), and there are
\* ceil(len / batch size) of them.
C14_BatchesCoverLinks ==
    [][/\ PlannedCases
       /\ \A r \in DOMAIN runs :
             (/\ StageStep(r, CRAWL) /\ ~io'[r].response.raised
              /\ environ.BATCH_LIMIT >= 1) =>
                LET response == io'[r].response
                    links == IF response.has_data /\ response.has_links
                             THEN response.links ELSE <<>>
                IN  /\ runs'[r].state.error = ""
                    /\ WellPlanned(runs'[r].state.url_batches,
                                   FilterValid(links, runs[r].state.url),
                                   environ.URL_LIMIT, environ.BATCH_LIMIT)]_vars

\* C14 witness: discovery gave two valid links and crawl has planned them as
\* two batches of one, in the order of discovery
C14_Witness ==
    \E r \in DOMAIN runs :
        /\ io[r].stage = CRAWL /\ environ.BATCH_LIMIT = 1
        /\ io[r].response.links = <<"b", "a">>
        /\ runs[r].state.url_batches = <<<<"b">>, <<"a">>>>

\* C15: planning the batches with a batch size of zero or below fails: crawl
\* ends in a fault, it never hands on an empty or partial list of batches
\* that lets the run go on as if no links had been found.
C15_BadBatchSizeFails ==
    [][\A r \in DOMAIN runs :
          (/\ StageStep(r, CRAWL) /\ environ.BATCH_LIMIT <= 0
           /\ ~io'[r].response.raised /\ io'[r].response.has_data) =>
             /\ runs'[r].state.error # "" /\ runs'[r].state.failed_node = CRAWL
             /\ runs'[r].node \notin {SCRAP, SAVE, "done"}]_vars

\* the run s is in flight and writes the result file: it has written it, or
\* stands at save with something to write
WritesFile(s) ==
    /\ runs[s].pc = "invoking"
    /\ Truthy(runs[s].result) \/ (runs[s].node = SAVE /\ Writes(runs[s].state))

\* C16: runs of different jobs in flight together share nothing but the job
\* store: a step of job A's run changes no field of job B's record, and when
\* a stage of A's run writes somewhere, the result file of save included, no
\* run of another job in flight at the time writes the same place.
C16_RunsShareNothing ==
    [][\A r \in DOMAIN runs :
          /\ (runs[r].kind = "job" /\ runs'[r] # runs[r]) =>
                \A j \in DOMAIN jobs_store \cap DOMAIN jobs_store' :
                    j # runs[r].job_id => jobs_store'[j] = jobs_store[j]
          /\ (StageStep(r, SAVE) /\ io'[r].sink # "not called") =>
                \A s \in DOMAIN runs \ {r} : ~WritesFile(s)]_vars

\* C17: scrap always asks for the batch at position 0 of url_batches; over
\* every FetchBatch -> Summarize cycle that ends without a fault url_batches
\* becomes its former value without the first element, the rest in the same
\* order, format leaving it alone; and a run is Done only with url_batches
\* empty.
C17_FifoShrinksByOne ==
    [][\A r \in DOMAIN runs :
          /\ (StageStep(r, SCRAP) /\ runs[r].state.url_batches # <<>>) =>
                /\ io'[r].urls = runs[r].state.url_batches[1]
                /\ runs'[r].state.error = "" =>
                      runs'[r].state.url_batches = Tail(runs[r].state.url_batches)
          /\ StageStep(r, FORMAT) =>
                runs'[r].state.url_batches = runs[r].state.url_batches
          /\ runs'[r].node = "done" => runs'[r].state.url_batches = <<>>]_vars

Stages == {CRAWL, SCRAP, FORMAT, SAVE}

PipelineData(state) == <<state.url_batches, state.scraped_data, state.formatted_data>>

\* the capability call of the stage just run has faulted
CapabilityFaulted(exchange) ==
    CASE exchange.stage \in {CRAWL, SCRAP} -> exchange.response.raised
      [] exchange.stage = FORMAT ->
            \E i \in DOMAIN exchange.responses : exchange.responses[i] = "raise"
      [] exchange.stage = SAVE -> exchange.sink \in {"open_fault", "dump_fault"}
      [] OTHER -> FALSE

\* C19: when the capability call of crawl, scrap, format or save faults, the
\* stage leaves url_batches, scraped_data and formatted_data as they were on
\* entry (the head batch stays, no partial summaries); error_handler changes
\* none of them either, so the re-entered stage starts from the same data as
\* the first attempt.
C19_FaultKeepsData ==
    [][\A r \in DOMAIN runs :
          /\ (\E identifier \in Stages : StageStep(r, identifier)) /\ CapabilityFaulted(io'[r])
                => /\ PipelineData(runs'[r].state) = PipelineData(runs[r].state)
                   /\ runs'[r].state.failed_node = runs[r].node
                   /\ runs'[r].node = "error_handler"
          /\ StageStep(r, "error_handler")
                => /\ PipelineData(runs'[r].state) = PipelineData(runs[r].state)
                   /\ runs'[r].node \in {runs[r].state.failed_node, "aborted"}]_vars

\* C19 witness: the fetch of the second batch faulted with the first batch's
\* summaries in hand, and the run is back at scrap with both as they were
C19_Witness ==
    \E r \in DOMAIN runs :
        /\ io[r].stage = "error_handler" /\ runs[r].node = SCRAP
        /\ runs[r].state.retry_count = 1
        /\ history[r].planned = 2 /\ Len(runs[r].state.url_batches) = 1
        /\ runs[r].state.formatted_data # <<>>

\* C20: in every state of the job store, a stored job has a result only if it
\* is Completed and an error only if it is Failed, never both; a job that is
\* Pending or Running has no result, no error and no completed_at.
C20_FieldsFollowStatus ==
    \A j \in DOMAIN jobs_store :
        LET job == jobs_store[j]
        IN  /\ job.result # NoResult => job.status = COMPLETED
            /\ job.error # None => job.status = FAILED
            /\ ~(job.result # NoResult /\ job.error # None)
            /\ job.status \in {PENDING, RUNNING} =>
                  job.result = NoResult /\ job.error = None /\ job.completed_at = NoTime

\* C20 witness: the store holds a Completed job with its result and no error
\* beside a Failed job with its error and no result
C20_Witness ==
    \E j, k \in DOMAIN jobs_store :
        /\ jobs_store[j].status = COMPLETED
        /\ Truthy(jobs_store[j].result) /\ jobs_store[j].error = None
        /\ jobs_store[k].status = FAILED
        /\ jobs_store[k].error # None /\ jobs_store[k].result = NoResult

====
